---- MODULE Spec2Model ----
(***************************************************************************)
(* AutoReviewBot (src/review_bot.py): the Position Resolver                *)
(* (get_pr_diff_positions), the Batching Coordinator (batch_files) and the *)
(* main review run (override gate, oracle calls, violation loop, summary   *)
(* comment, final status).                                                 *)
(*                                                                         *)
(* Three specifications share the module:                                  *)
(*   SpecPositions  get_pr_diff_positions applied to bounded PR responses  *)
(*   SpecBatch      batch_files applied to bounded (path, diff) sequences  *)
(*   Spec           the main script, statement by statement                *)
(***************************************************************************)
EXTENDS Integers, Sequences, FiniteSets, TLC

VARIABLES
    posInput,          \* SpecPositions: [response, file_path] given to get_pr_diff_positions
    posCalled,         \* SpecPositions: whether the function has been applied
    posResult,         \* SpecPositions: its outcome [raised, diff_map]
    bfInput,           \* SpecBatch: [files_diffs, max_chars] given to batch_files
    bfCalled,          \* SpecBatch: whether the function has been applied
    bfResult,          \* SpecBatch: the returned list of batches
    pc,                \* Spec: position of the main script
    changed,           \* Spec: the changed .java files with their diffs (get_changed_java_files, get_diff)
    pr_response,       \* Spec: the hosting API's answer to GET pulls/<n>/files
    pr_labels,         \* Spec: the labels the pull request carries
    labels_response,   \* Spec: the hosting API's answer to GET issues/<n>/labels, once read
    batches,           \* Spec: batches = batch_files(file_diffs)
    bi,                \* Spec: index of the batch the for loop is at
    violations,        \* Spec: violations = call_llm(...) of the current batch
    vi,                \* Spec: index of the violation the inner loop is at
    violations_total,  \* Spec: violations_total
    llm_calls,         \* Spec: one record per call_llm call made
    inline_comments,   \* Spec: the post_inline_comment requests sent
    summary,           \* Spec: the post_summary_comment request sent, if any
    status,            \* Spec: the post_status request sent, if any
    exception          \* Spec: the uncaught exception that ended the script, if any

posVars == <<posInput, posCalled, posResult>>
bfVars == <<bfInput, bfCalled, bfResult>>
runVars == <<pc, changed, pr_response, pr_labels, labels_response, batches, bi, violations, vi,
             violations_total, llm_calls, inline_comments, summary, status, exception>>
vars == <<posVars, bfVars, runVars>>

(***************************************************************************)
(* Bounds of the model.                                                    *)
(***************************************************************************)
MaxPatchLines == 4     \* lines of a patch text
MaxStart == 2          \* largest start line number in a hunk header
MaxFiles == 3          \* files given to batch_files
MaxViolations == 2     \* elements of one oracle response

(***************************************************************************)
(* Patch text.  A patch is the sequence of lines that                      *)
(* file.get("patch", "").split("\n") yields; a line is modelled by the     *)
(* prefix the code tests with startswith and, for a hunk header            *)
(* "@@ -old,b +new,d @@", its two start numbers.                           *)
(***************************************************************************)
Hdr(a, c) == [pre |-> "@@", old |-> a, new |-> c]
AddedLine == [pre |-> "+", old |-> 0, new |-> 0]
RemovedLine == [pre |-> "-", old |-> 0, new |-> 0]
ContextLine == [pre |-> " ", old |-> 0, new |-> 0]
\* "\ No newline at end of file", the marker git and the hosting API put
\* after the last line of a side that lacks the final newline
NoNewlineMarker == [pre |-> "\\", old |-> 0, new |-> 0]
\* the empty string: "".split("\n") is [""]
EmptyLine == [pre |-> "", old |-> 0, new |-> 0]

Headers == {Hdr(a, c) : a \in 1..MaxStart, c \in 1..MaxStart}
BodyLines == {AddedLine, RemovedLine, ContextLine, NoNewlineMarker}

\* the patch text "" (also the default when the "patch" key is absent)
EmptyPatch == <<EmptyLine>>

\* line.startswith(p)
startswith(line, p) == line.pre = p

\* int(hunk[2].split(",")[0].replace("+", "")): hunk = line.split(" ") is
\* ["@@", "-old,b", "+new,d", "@@"], so hunk[2] carries the new-side start
HunkNewStart(line) == line.new

(***************************************************************************)
(* get_pr_diff_positions, lines 121-139.  The scan state is the function's *)
(* locals; new_line = None is new_line_none = TRUE.  raised is "None"      *)
(* while no exception has been raised.                                     *)
(***************************************************************************)
ScanInit == [position |-> 0, new_line_none |-> TRUE, new_line |-> 0,
             diff_map |-> << >>, raised |-> "None"]

\* diff_map[new_line] = position
DictSet(m, k, v) == [x \in (DOMAIN m) \cup {k} |-> IF x = k THEN v ELSE m[x]]

\* One iteration of the loop over the patch lines (lines 127-137).
ScanLine(st, line) ==
    LET p == st.position + 1 IN
    IF st.raised /= "None" THEN st
    ELSE IF startswith(line, "@@") THEN
        [st EXCEPT !.position = p, !.new_line_none = FALSE,
                   !.new_line = HunkNewStart(line) - 1]
    ELSE IF startswith(line, "+") THEN
        IF st.new_line_none
        THEN [st EXCEPT !.position = p, !.raised = "TypeError"]
        ELSE [st EXCEPT !.position = p, !.new_line = st.new_line + 1,
                        !.diff_map = DictSet(st.diff_map, st.new_line + 1, p)]
    ELSE IF ~startswith(line, "-") THEN
        IF st.new_line_none
        THEN [st EXCEPT !.position = p, !.raised = "TypeError"]
        ELSE [st EXCEPT !.position = p, !.new_line = st.new_line + 1]
    ELSE [st EXCEPT !.position = p]

RECURSIVE ScanFrom(_, _, _)
ScanFrom(lines, i, st) ==
    IF i > Len(lines) THEN st
    ELSE ScanFrom(lines, i + 1, ScanLine(st, lines[i]))

\* file.get("patch", "").split("\n")
PatchLines(file) == IF file.has_patch THEN file.patch ELSE EmptyPatch

\* index of the first entry of the response whose filename is file_path, 0 if none
RECURSIVE FirstMatch(_, _, _)
FirstMatch(files, file_path, i) ==
    IF i > Len(files) THEN 0
    ELSE IF files[i].filename = file_path THEN i
    ELSE FirstMatch(files, file_path, i + 1)

get_pr_diff_positions(response, file_path) ==
    IF response.status_code /= 200
    THEN [raised |-> "Exception", diff_map |-> << >>]
    ELSE LET i == FirstMatch(response.files, file_path, 1) IN
         IF i = 0 THEN [raised |-> "None", diff_map |-> << >>]
         ELSE LET st == ScanFrom(PatchLines(response.files[i]), 1, ScanInit) IN
              [raised |-> st.raised,
               diff_map |-> IF st.raised = "None" THEN st.diff_map ELSE << >>]

(***************************************************************************)
(* Inputs of SpecPositions: the patch texts the hosting API can return.    *)
(* A patch is empty, or starts with a hunk header; hunks come in ascending *)
(* new-file order; the no-newline marker follows a line of the file.       *)
(***************************************************************************)
\* The new-file numbering of a unified diff, as the format defines it: a
\* header sets the number of the next new-file line to its new-side start,
\* added and context lines take that number and advance it, removed lines
\* and the no-newline marker are not lines of the new file.
RefInit == [next |-> 0, added |-> {}, n_added |-> 0, ascending |-> TRUE]

RefLine(r, line) ==
    IF line.pre = "@@" THEN
        [r EXCEPT !.next = line.new, !.ascending = r.ascending /\ line.new >= r.next]
    ELSE IF line.pre = "+" THEN
        [r EXCEPT !.next = r.next + 1, !.added = r.added \cup {r.next},
                  !.n_added = r.n_added + 1]
    ELSE IF line.pre = " " THEN [r EXCEPT !.next = r.next + 1]
    ELSE r

RECURSIVE RefFrom(_, _, _)
RefFrom(lines, i, r) ==
    IF i > Len(lines) THEN r ELSE RefFrom(lines, i + 1, RefLine(r, lines[i]))

\* the set of new-file line numbers of the patch's added lines
RefAddedLineNumbers(lines) == RefFrom(lines, 1, RefInit).added

WellFormedPatch(lines) ==
    \/ lines = EmptyPatch
    \/ /\ lines[1] \in Headers
       /\ \A i \in 2..Len(lines) :
            /\ lines[i] \in Headers \cup BodyLines
            /\ lines[i] = NoNewlineMarker =>
                    lines[i - 1] \in {AddedLine, RemovedLine, ContextLine}
       /\ RefFrom(lines, 1, RefInit).ascending

PatchTexts ==
    {p \in UNION {[1..n -> Headers \cup BodyLines \cup {EmptyLine}] : n \in 1..MaxPatchLines} :
        WellFormedPatch(p)}

TargetPath == "A.java"
OtherPath == "B.java"

\* an entry of the PR files response; has_patch = FALSE is an entry without
\* the "patch" key (the API omits it for binary or very large files)
FileEntries ==
    {[filename |-> TargetPath, has_patch |-> TRUE, patch |-> p] : p \in PatchTexts}
    \cup {[filename |-> TargetPath, has_patch |-> FALSE, patch |-> EmptyPatch]}

OtherEntry == [filename |-> OtherPath, has_patch |-> TRUE,
               patch |-> <<Hdr(1, 1), AddedLine>>]

Responses ==
    {[status_code |-> sc, files |-> fs] :
        sc \in {200, 500},
        fs \in {<< >>, <<OtherEntry>>}
               \cup {<<e>> : e \in FileEntries}
               \cup {<<OtherEntry, e>> : e \in FileEntries}}

PosInputs == {[response |-> r, file_path |-> TargetPath] : r \in Responses}

NoResult == [raised |-> "NotCalled", diff_map |-> << >>]

(***************************************************************************)
(* batch_files, lines 248-263.  A diff text is modelled by its identity    *)
(* and its length in characters, the one thing batch_files reads of it.    *)
(***************************************************************************)
DEFAULT_MAX_CHARS == 3500

\* len(diff)
len(diff) == diff.chars

BatchInit == [batches |-> << >>, current_batch |-> << >>, current_size |-> 0]

\* BatchStep with the size test on the next file alone (the running total
\* left out of the comparison)
BatchStep_IgnoresRunningSize(st, item, max_chars) ==
    LET size == len(item.diff) IN
    IF size > max_chars /\ st.current_batch /= << >>
    THEN [batches |-> Append(st.batches, st.current_batch),
          current_batch |-> <<item>>,
          current_size |-> size]
    ELSE [batches |-> st.batches,
          current_batch |-> Append(st.current_batch, item),
          current_size |-> st.current_size + size]

\* One iteration of the loop over files_diffs (lines 252-260).
BatchStep(st, item, max_chars) ==
    LET size == len(item.diff) IN
    IF st.current_size + size > max_chars /\ st.current_batch /= << >>
    THEN [batches |-> Append(st.batches, st.current_batch),
          current_batch |-> <<item>>,
          current_size |-> size]
    ELSE [batches |-> st.batches,
          current_batch |-> Append(st.current_batch, item),
          current_size |-> st.current_size + size]

RECURSIVE BatchFrom(_, _, _, _)
BatchFrom(files_diffs, i, st, max_chars) ==
    IF i > Len(files_diffs) THEN st
    ELSE BatchFrom(files_diffs, i + 1, BatchStep(st, files_diffs[i], max_chars), max_chars)

\* BatchFinish without the trailing flush of the open batch
BatchFinish_NoFlush(st) == st.batches

\* lines 261-263
BatchFinish(st) ==
    IF st.current_batch /= << >> THEN Append(st.batches, st.current_batch)
    ELSE st.batches

batch_files(files_diffs, max_chars) ==
    BatchFinish(BatchFrom(files_diffs, 1, BatchInit, max_chars))

(***************************************************************************)
(* Inputs of SpecBatch.                                                    *)
(***************************************************************************)
Paths == {TargetPath, OtherPath}

DiffTexts == {[text |-> "d0", chars |-> 0], [text |-> "d1", chars |-> 1200],
              [text |-> "d2", chars |-> 2400], [text |-> "d3", chars |-> 3600]}

FileDiffs == {[file |-> f, diff |-> d] : f \in Paths, d \in DiffTexts}

MaxCharsChoices == {-1, 0, 2400, DEFAULT_MAX_CHARS, 4800}

BatchInputs ==
    {[files_diffs |-> fd, max_chars |-> m] :
        fd \in UNION {[1..n -> FileDiffs] : n \in 0..MaxFiles},
        m \in MaxCharsChoices}

(***************************************************************************)
(* The variables of a specification that is not the one running.           *)
(***************************************************************************)
PosIdle == posInput = [response |-> [status_code |-> 200, files |-> << >>],
                       file_path |-> TargetPath]
           /\ posCalled = FALSE /\ posResult = NoResult
BfIdle == bfInput = [files_diffs |-> << >>, max_chars |-> DEFAULT_MAX_CHARS]
          /\ bfCalled = FALSE /\ bfResult = << >>

(***************************************************************************)
(* The main script, lines 231-317.  As committed the script does not run   *)
(* (line 283 is mis-indented, call_llm is called with one argument, and    *)
(* RULE_PROMPT and diff_positions are never bound), so the model takes the *)
(* statements in the order written with the bindings the file itself       *)
(* gives: the rule prompt is ambient, and diff_positions is                *)
(* get_pr_diff_positions of the violation's file (the binding of line 291).*)
(* Everything else is as written: call_llm makes one attempt, no record is *)
(* validated, and post_inline_comment receives v['line'].                  *)
(***************************************************************************)
OVERRIDE_LABEL == "override-autoreview"

\* the fields a violation record must carry (schema of the prompt, lines 77-82)
RequiredFields == {"rule", "line", "explanation", "suggestion", "severity"}

\* v.get("file") of a record without the key
NoFile == "None"

\* A record of the oracle's JSON array: the keys of RequiredFields it lacks
\* are in missing; line and severity are read only when present.
Violation(f, l, sev, miss) == [file |-> f, line |-> l, severity |-> sev, missing |-> miss]

Has(v, field) == field \notin v.missing

\* The records the oracle may return.
OracleViolations ==
    { Violation(NoFile, 2, "warning", {}),
      Violation(NoFile, 1, "warning", {}),
      Violation(OtherPath, 1, "error", {}),
      Violation(NoFile, 2, "absent", {"severity"}),
      Violation(NoFile, 0, "warning", {"line"}),
      Violation(NoFile, 2, "warning", {"rule"}) }

OracleResponses == UNION {[1..n -> OracleViolations] : n \in 0..MaxViolations}

\* The files of the pull request, as the hosting API lists them.
PatchA == <<Hdr(1, 1), ContextLine, AddedLine>>
PatchB == <<Hdr(1, 1), AddedLine>>
PRFilesResponse ==
    [status_code |-> 200,
     files |-> <<[filename |-> TargetPath, has_patch |-> TRUE, patch |-> PatchA],
                 [filename |-> OtherPath, has_patch |-> TRUE, patch |-> PatchB]>>]
\* the same listing with no "patch" key for the second file, and a failed request
PRFilesResponses ==
    { PRFilesResponse,
      [status_code |-> 200,
       files |-> <<[filename |-> TargetPath, has_patch |-> TRUE, patch |-> PatchA],
                   [filename |-> OtherPath, has_patch |-> FALSE, patch |-> EmptyPatch]>>],
      [status_code |-> 500, files |-> << >>] }

\* The changed files of a run with the lengths of their diffs.
DiffOf(name, n) == [text |-> name, chars |-> n]
ChangedFileSets ==
    { << >>,
      <<[file |-> TargetPath, diff |-> DiffOf("a", 1200)]>>,
      <<[file |-> TargetPath, diff |-> DiffOf("a", 1200)],
        [file |-> OtherPath, diff |-> DiffOf("b", 1200)]>>,
      <<[file |-> TargetPath, diff |-> DiffOf("a", 2400)],
        [file |-> OtherPath, diff |-> DiffOf("b", 2400)]>> }

\* The labels a pull request may carry, and the answers to the label lookup:
\* HTTP 200 with the labels, another HTTP status, or requests.get raising.
LabelSets == {{"bug"}, {"bug", OVERRIDE_LABEL}}
LabelOutcomes == {"200", "non200", "exception"}
LabelResponse(outcome, labels) ==
    [outcome |-> outcome, labels |-> IF outcome = "200" THEN labels ELSE {}]
LabelsUnread == [outcome |-> "unread", labels |-> {}]

\* maintainer_override_exists, lines 200-210
maintainer_override_exists_NeverTrue(resp) == FALSE

maintainer_override_exists(resp) ==
    IF resp.outcome = "200" THEN OVERRIDE_LABEL \in resp.labels
    ELSE FALSE

NoStatus == [state |-> "none", description |-> ""]
NoSummary == [posted |-> FALSE, body |-> << >>]

\* call_llm, lines 98-107: one request; any exception of the request or of
\* json.loads is caught and the empty list returned
call_llm(outcome, response) == IF outcome = "ok" THEN response ELSE << >>

\* diff_positions.get(v['line']); None is 0 (both are false in "if position")
DictGet_FallbackToKey(m, k) == IF k \in DOMAIN m THEN m[k] ELSE k

DictGet(m, k) == IF k \in DOMAIN m THEN m[k] ELSE 0

\* the argument post_inline_comment is given as position, line 281
InlinePositionArg(v, position) == v.line

\* the f-string of line 280 reads v['rule'], v['explanation'], v['suggestion']
BodyRaises(v) == ~(Has(v, "rule") /\ Has(v, "explanation") /\ Has(v, "suggestion"))

\* the f-string of line 309 reads rule, file, line, explanation, suggestion
\* of every element of violations_total
SummaryRaises(vt) ==
    \E i \in 1..Len(vt) :
        ~(Has(vt[i], "rule") /\ Has(vt[i], "line") /\ Has(vt[i], "explanation")
          /\ Has(vt[i], "suggestion"))

\* any(v["severity"] == "error" for v in violations_total), lines 315-316:
\* "True", "False", or "KeyError" when a record without the key is read
\* before an error is found
RECURSIVE AnyError(_, _)
AnyError(vt, i) ==
    IF i > Len(vt) THEN "False"
    ELSE IF ~Has(vt[i], "severity") THEN "KeyError"
    ELSE IF vt[i].severity = "error" THEN "True"
    ELSE AnyError(vt, i + 1)

FinalStatus_FailsOnAnyViolation(vt) ==
    IF vt /= << >>
    THEN [state |-> "failure", description |-> "Critical rule violations found"]
    ELSE [state |-> "success", description |-> "All checks passed"]

\* the arguments of the final post_status, lines 314-317
FinalStatus(vt) ==
    IF AnyError(vt, 1) = "True"
    THEN [state |-> "failure", description |-> "Critical rule violations found"]
    ELSE [state |-> "success", description |-> "All checks passed"]

RunIdle ==
    /\ pc = "idle"
    /\ changed = << >>
    /\ pr_response = PRFilesResponse
    /\ pr_labels = {}
    /\ labels_response = LabelsUnread
    /\ batches = << >>
    /\ bi = 0
    /\ violations = << >>
    /\ vi = 0
    /\ violations_total = << >>
    /\ llm_calls = << >>
    /\ inline_comments = << >>
    /\ summary = NoSummary
    /\ status = NoStatus
    /\ exception = "None"

Init ==
    /\ pc = "gate"
    /\ changed \in ChangedFileSets
    /\ pr_response \in PRFilesResponses
    /\ pr_labels \in LabelSets
    /\ labels_response = LabelsUnread
    /\ batches = << >>
    /\ bi = 0
    /\ violations = << >>
    /\ vi = 0
    /\ violations_total = << >>
    /\ llm_calls = << >>
    /\ inline_comments = << >>
    /\ summary = NoSummary
    /\ status = NoStatus
    /\ exception = "None"
    /\ PosIdle
    /\ BfIdle

\* lines 236-239: the override gate
OverrideGate ==
    /\ pc = "gate"
    /\ \E outcome \in LabelOutcomes :
        /\ labels_response' = LabelResponse(outcome, pr_labels)
        /\ IF maintainer_override_exists(LabelResponse(outcome, pr_labels))
           THEN /\ status' = [state |-> "success",
                              description |-> "Review skipped by maintainer override."]
                /\ pc' = "done"
           ELSE /\ status' = status
                /\ pc' = "collect"
    /\ UNCHANGED <<changed, pr_response, pr_labels, batches, bi, violations, vi, violations_total,
                   llm_calls, inline_comments, summary, exception, posVars, bfVars>>

\* lines 242-268: file_diffs, batches = batch_files(file_diffs), violations_total = []
CollectAndBatch ==
    /\ pc = "collect"
    /\ batches' = batch_files(changed, DEFAULT_MAX_CHARS)
    /\ bi' = 1
    /\ violations_total' = << >>
    /\ pc' = "batch"
    /\ UNCHANGED <<changed, pr_response, pr_labels, labels_response, violations, vi, llm_calls,
                   inline_comments, summary, status, exception, posVars, bfVars>>

\* lines 269-271: the next batch's call_llm
CallLlm ==
    /\ pc = "batch"
    /\ bi <= Len(batches)
    /\ \E outcome \in {"ok", "transport_error", "parse_error"}, response \in OracleResponses :
        /\ outcome /= "ok" => response = << >>
        /\ violations' = call_llm(outcome, response)
        /\ llm_calls' = Append(llm_calls,
                [batch |-> bi, attempts |-> 1,
                 outcome |-> IF outcome = "ok" THEN "Success" ELSE "Exhausted",
                 returned |-> call_llm(outcome, response)])
    /\ vi' = 1
    /\ pc' = "violation"
    /\ UNCHANGED <<changed, pr_response, pr_labels, labels_response, batches, bi, violations_total,
                   inline_comments, summary, status, exception, posVars, bfVars>>

\* lines 272-285: one iteration of "for v in violations"
\* (log_violation_data, line 276, appends to the audit log file and is left out)
ProcessViolation ==
    /\ pc = "violation"
    /\ vi <= Len(violations)
    /\ LET v0 == violations[vi]
           file_path == IF v0.file /= NoFile THEN v0.file ELSE batches[bi][1].file
           v == [v0 EXCEPT !.file = file_path]
           resolved == get_pr_diff_positions(pr_response, file_path)
           position == DictGet(resolved.diff_map, v.line)
       IN /\ violations_total' = Append(violations_total, v)
          /\ IF ~Has(v, "line")
             THEN /\ exception' = "KeyError"
                  /\ pc' = "aborted"
                  /\ UNCHANGED <<vi, inline_comments>>
             ELSE IF resolved.raised /= "None"
             THEN /\ exception' = resolved.raised
                  /\ pc' = "aborted"
                  /\ UNCHANGED <<vi, inline_comments>>
             ELSE /\ inline_comments' =
                        IF position /= 0 /\ ~BodyRaises(v)
                        THEN Append(inline_comments,
                                [path |-> file_path,
                                 position |-> InlinePositionArg(v, position),
                                 violation |-> v])
                        ELSE inline_comments
                  /\ vi' = vi + 1
                  /\ UNCHANGED <<pc, exception>>
    /\ UNCHANGED <<changed, pr_response, pr_labels, labels_response, batches, bi, violations,
                   llm_calls, summary, status, posVars, bfVars>>

\* the inner loop is exhausted: the outer loop moves to the next batch
EndOfBatch ==
    /\ pc = "violation"
    /\ vi > Len(violations)
    /\ bi' = bi + 1
    /\ pc' = "batch"
    /\ UNCHANGED <<changed, pr_response, pr_labels, labels_response, batches, violations, vi,
                   violations_total, llm_calls, inline_comments, summary, status,
                   exception, posVars, bfVars>>

\* lines 307-312: the summary comment
PostSummary ==
    /\ pc = "batch"
    /\ bi > Len(batches)
    /\ IF violations_total = << >>
       THEN /\ pc' = "status"
            /\ UNCHANGED <<summary, exception>>
       ELSE IF SummaryRaises(violations_total)
       THEN /\ pc' = "aborted"
            /\ exception' = "KeyError"
            /\ UNCHANGED summary
       ELSE /\ summary' = [posted |-> TRUE, body |-> violations_total]
            /\ pc' = "status"
            /\ UNCHANGED exception
    /\ UNCHANGED <<changed, pr_response, pr_labels, labels_response, batches, bi, violations, vi,
                   violations_total, llm_calls, inline_comments, status, posVars, bfVars>>

\* lines 314-317: the final status
PostStatus ==
    /\ pc = "status"
    /\ IF AnyError(violations_total, 1) = "KeyError"
       THEN /\ pc' = "aborted"
            /\ exception' = "KeyError"
            /\ UNCHANGED status
       ELSE /\ status' = FinalStatus(violations_total)
            /\ pc' = "done"
            /\ UNCHANGED exception
    /\ UNCHANGED <<changed, pr_response, pr_labels, labels_response, batches, bi, violations, vi,
                   violations_total, llm_calls, inline_comments, summary, posVars, bfVars>>

Next ==
    \/ OverrideGate
    \/ CollectAndBatch
    \/ CallLlm
    \/ ProcessViolation
    \/ EndOfBatch
    \/ PostSummary
    \/ PostStatus

Spec == Init /\ [][Next]_vars

(***************************************************************************)
(* SpecPositions and SpecBatch: the input is drawn, the function applied.  *)
(***************************************************************************)
InitPositions ==
    /\ posInput \in PosInputs
    /\ posCalled = FALSE
    /\ posResult = NoResult
    /\ BfIdle
    /\ RunIdle

CallGetPrDiffPositions ==
    /\ ~posCalled
    /\ posCalled' = TRUE
    /\ posResult' = get_pr_diff_positions(posInput.response, posInput.file_path)
    /\ UNCHANGED <<posInput, bfVars, runVars>>

NextPositions == CallGetPrDiffPositions

SpecPositions == InitPositions /\ [][NextPositions]_vars

InitBatch ==
    /\ bfInput \in BatchInputs
    /\ bfCalled = FALSE
    /\ bfResult = << >>
    /\ PosIdle
    /\ RunIdle

CallBatchFiles ==
    /\ ~bfCalled
    /\ bfCalled' = TRUE
    /\ bfResult' = batch_files(bfInput.files_diffs, bfInput.max_chars)
    /\ UNCHANGED <<bfInput, posVars, runVars>>

NextBatch == CallBatchFiles

SpecBatch == InitBatch /\ [][NextBatch]_vars

(***************************************************************************)
(* Claims about get_pr_diff_positions (SpecPositions).                     *)
(***************************************************************************)
\* the call found the file in a 200 response
PosMatched ==
    /\ posInput.response.status_code = 200
    /\ FirstMatch(posInput.response.files, posInput.file_path, 1) /= 0

\* the patch text scanned by the call
PosPatch ==
    PatchLines(posInput.response.files[
        FirstMatch(posInput.response.files, posInput.file_path, 1)])

\* C1: for every patch text, the key set of the returned mapping is exactly
\* the set of new-file line numbers of the patch's added lines (a header
\* "@@ -a,b +c,d @@" numbering the next new-file line c), one entry per
\* added line and none for removed or context lines.
C1_KeysAreAddedLineNumbers ==
    (posCalled /\ PosMatched /\ posResult.raised = "None") =>
        /\ DOMAIN posResult.diff_map = RefAddedLineNumbers(PosPatch)
        /\ Cardinality(DOMAIN posResult.diff_map) = RefFrom(PosPatch, 1, RefInit).n_added

\* C10: for a file whose patch has zero hunks or whose patch metadata is
\* absent, the call completes normally and returns the empty mapping.
C10_NoHunksGivesEmptyMap ==
    (posCalled /\ PosMatched /\ PosPatch = EmptyPatch) =>
        /\ posResult.raised = "None"
        /\ posResult.diff_map = << >>

(***************************************************************************)
(* Claims about batch_files (SpecBatch).                                   *)
(***************************************************************************)
RECURSIVE SumChars(_, _)
SumChars(batch, i) ==
    IF i > Len(batch) THEN 0 ELSE len(batch[i].diff) + SumChars(batch, i + 1)

RECURSIVE Flatten(_, _)
Flatten(bs, i) ==
    IF i > Len(bs) THEN << >> ELSE bs[i] \o Flatten(bs, i + 1)

OversizeAlone(batch) ==
    Len(batch) = 1 /\ len(batch[1].diff) > bfInput.max_chars

\* C2: every returned batch has a summed diff length <= max_chars, except a
\* batch of exactly one file whose own diff exceeds max_chars; a file that
\* exceeds max_chars alone shares its batch with no other file.
C2_CapacityRespected ==
    bfCalled =>
        \A b \in 1..Len(bfResult) :
            /\ SumChars(bfResult[b], 1) <= bfInput.max_chars \/ OversizeAlone(bfResult[b])
            /\ \A k \in 1..Len(bfResult[b]) :
                    len(bfResult[b][k].diff) > bfInput.max_chars => Len(bfResult[b]) = 1

\* an oversize file between two files that share no batch with it, and a
\* batch of two files elsewhere in the same result
C2_Witness ==
    /\ bfCalled
    /\ \E b \in 1..Len(bfResult) : OversizeAlone(bfResult[b]) /\ bfInput.max_chars > 0
    /\ \E b \in 1..Len(bfResult) : Len(bfResult[b]) >= 2 /\ SumChars(bfResult[b], 1) > 0

\* C3: concatenating the returned batches in order gives back exactly the
\* input sequence, and no returned batch is empty.
C3_LosslessOrdered ==
    bfCalled =>
        /\ Flatten(bfResult, 1) = bfInput.files_diffs
        /\ \A b \in 1..Len(bfResult) : bfResult[b] /= << >>

\* three files split over at least two batches
C3_Witness ==
    /\ bfCalled
    /\ Len(bfInput.files_diffs) >= 3
    /\ Len(bfResult) >= 2
    /\ \E b \in 1..Len(bfResult) : Len(bfResult[b]) >= 2

(***************************************************************************)
(* Claims about the main script (Spec).                                    *)
(***************************************************************************)
HasErrorSeverity(v) == Has(v, "severity") /\ v.severity = "error"

\* C4: on a run the override does not skip, the final status published is
\* "failure" if and only if some accumulated violation has severity
\* "error", and "success" otherwise.
C4_FinalStatusIffError ==
    (status /= NoStatus /\ ~maintainer_override_exists(labels_response)) =>
        status.state =
            IF \E i \in 1..Len(violations_total) : HasErrorSeverity(violations_total[i])
            THEN "failure" ELSE "success"

\* a run that published "failure" after a warning and an error were found
C4_Witness ==
    /\ pc = "done"
    /\ ~maintainer_override_exists(labels_response)
    /\ status.state = "failure"
    /\ \E i \in 1..Len(violations_total) : HasErrorSeverity(violations_total[i])
    /\ \E i \in 1..Len(violations_total) :
            Has(violations_total[i], "severity") /\ violations_total[i].severity = "warning"

\* the run was skipped: status "success" with the skip description, no
\* oracle call, no inline comment, no summary comment
SkippedRun ==
    /\ pc = "done"
    /\ status = [state |-> "success",
                 description |-> "Review skipped by maintainer override."]
    /\ llm_calls = << >>
    /\ inline_comments = << >>
    /\ ~summary.posted

\* C5 as stated: when the pull request carries the override marker at the
\* start of the run, the run ends with status "success" (skipped review)
\* and makes no oracle call and posts no comment.
C5_MarkerPresentSkips ==
    OVERRIDE_LABEL \in pr_labels =>
        /\ llm_calls = << >>
        /\ inline_comments = << >>
        /\ ~summary.posted
        /\ pc = "done" =>
                status = [state |-> "success",
                          description |-> "Review skipped by maintainer override."]

\* C5 as amended: when the pull request carries the override marker and the
\* label lookup answers HTTP 200, the run ends with status "success"
\* (skipped review) and makes no oracle call and posts no comment.
C5_MarkerReadSkips ==
    (OVERRIDE_LABEL \in pr_labels /\ labels_response.outcome = "200") => SkippedRun

\* a labelled pull request with files to review, skipped
C5_Witness ==
    /\ OVERRIDE_LABEL \in pr_labels
    /\ labels_response.outcome = "200"
    /\ changed /= << >>
    /\ SkippedRun

\* C6: an oracle call ends Exhausted when 3 consecutive attempts have
\* failed, and then yields zero violations; the run goes on to the final
\* status, "success" when no batch reports an error-severity violation.
C6_ExhaustedAfterThreeAttempts ==
    /\ \A i \in 1..Len(llm_calls) :
            llm_calls[i].outcome = "Exhausted" =>
                llm_calls[i].attempts = 3 /\ llm_calls[i].returned = << >>
    /\ (pc = "done" /\ llm_calls /= << >>
        /\ ~\E i \in 1..Len(violations_total) : HasErrorSeverity(violations_total[i]))
            => status.state = "success"

WellFormed(v) == v.missing = {}

\* C7: a violation record missing a required field never reaches the
\* Publisher: no inline comment is posted for it, and it is neither in the
\* summary comment nor among the violations that decide the final status.
C7_MalformedNeverPublished ==
    /\ \A i \in 1..Len(inline_comments) : WellFormed(inline_comments[i].violation)
    /\ summary.posted => \A i \in 1..Len(summary.body) : WellFormed(summary.body[i])
    /\ (status /= NoStatus /\ llm_calls /= << >>) =>
            \A i \in 1..Len(violations_total) : WellFormed(violations_total[i])

\* the violation's line has no entry in the position mapping of its file
NoPosition(v) ==
    /\ Has(v, "line")
    /\ LET r == get_pr_diff_positions(pr_response, v.file)
       IN r.raised = "None" /\ v.line \notin DOMAIN r.diff_map

C9_InlineAtResolvedPosition ==
    \A k \in 1..Len(inline_comments) :
        LET c == inline_comments[k]
            r == get_pr_diff_positions(pr_response, c.violation.file)
        IN /\ c.path = c.violation.file
           /\ c.violation.line \in DOMAIN r.diff_map
           /\ c.position = r.diff_map[c.violation.line]

====
